---- MODULE Spec2Model ----
(***************************************************************************)
(* Model of the IPC simulation engine of src/src/App.jsx: the tick driver  *)
(* (the setInterval callback of the scheduler effect), the four channel    *)
(* disciplines, the diagnostics pass, and the start/pause/reset commands.  *)
(*                                                                         *)
(* React semantics that the model keeps:                                   *)
(*  - The interval callback is a closure over one render.  Every plain     *)
(*    read of a state variable inside a tick (buffer, resources,           *)
(*    lockHeldBy, sharedMemory, processAState, processBState, metrics)     *)
(*    yields the value of the render that preceded the tick: the           *)
(*    "snapshot" S below.                                                  *)
(*  - setX(prev => f(prev)) is applied to the value left by the earlier    *)
(*    updates of the same tick; setX(v) replaces it.  The updates of one   *)
(*    tick are threaded through the "pending" record P below.              *)
(*  - cycleRef is a ref: it is read and written in place.                  *)
(*  - Every tick changes metrics, so the effect is re-run after every      *)
(*    tick and the next tick closes over the new render.                   *)
(* Wall-clock values (log timestamps, metrics.startTime) are not state of  *)
(* the model; the elapsed time read by calculatePerformanceMetrics is an   *)
(* input of the tick.  lastOp is a history variable: the command or tick   *)
(* that produced the current state.                                        *)
(***************************************************************************)
EXTENDS Integers, Sequences, FiniteSets, TLC

VARIABLES isRunning, ipcType, producerSpeed, consumerSpeed, buffer,
          sharedMemory, lockHeldBy, resources, processAState, processBState,
          logs, metrics, perfMetrics, cycleRef, lastOp

vars == <<isRunning, ipcType, producerSpeed, consumerSpeed, buffer,
          sharedMemory, lockHeldBy, resources, processAState, processBState,
          logs, metrics, perfMetrics, cycleRef, lastOp>>

\* The engine state that reset and pause are specified over (everything but
\* the configuration and the running flag).
engineState == <<buffer, sharedMemory, lockHeldBy, resources, processAState,
                 processBState, logs, metrics, perfMetrics, cycleRef>>

----------------------------------------------------------------------------
\* Bounds of the exploration.

\* Ticks explored per run of a buffer mechanism in the specification Spec.
MaxTick == 12

\* Ticks explored per run of the two mechanisms without a buffer in Spec.
MaxTickLong == 102

\* Ticks explored per run in the specification SpecOrder.
MaxTickOrder == 5

\* generateChunk draws value from 1..9; SpecOrder draws it from 1..MaxChunkValue.
MaxChunkValue == 1

\* Spec draws every chunk with value 1 and its priority from
\* 1..MaxDeepPriority (the code: 1..3).
MaxDeepPriority == 1

\* Ticks explored per run in the specification SpecConfig.
MaxTickConfig == 1

\* Longest text typed into a speed input in SpecConfig.
MaxInputLen == 3

----------------------------------------------------------------------------
\* Program constants.

PIPE == "Pipe (FIFO)"

QUEUE == "Message Queue (Priority)"

SHARED_MEMORY == "Shared Memory (Mutex)"

RESOURCES_DEADLOCK == "Resource Deadlock (Simulated)"

IPC_TYPES == {PIPE, QUEUE, SHARED_MEMORY, RESOURCES_DEADLOCK}

MAX_BUFFER_SIZE == 10

Null == "null"

INITIAL_SHARED_MEMORY == [value |-> 0, accessed |-> 0]

INITIAL_PROCESS_STATE == "IDLE"

INITIAL_LOCK_STATE == Null

INITIAL_RESOURCE_STATE ==
  [R1 |-> [heldBy |-> Null, requestedBy |-> Null],
   R2 |-> [heldBy |-> Null, requestedBy |-> Null],
   deadlock |-> FALSE]

\* Derived metrics are kept in hundredths (the code rounds with toFixed(2)).
INITIAL_PERF_METRICS == [throughput |-> 0, avgWaitTimeA |-> 0, avgWaitTimeB |-> 0]

INITIAL_METRICS == [produced |-> 0, consumed |-> 0, aWaitTime |-> 0, bWaitTime |-> 0, cycle |-> 0]

\* Number of priority levels drawn by generateChunk.
NumPriorities == 3

\* Length the event log is cut to.
LogLimit == 50

\* Tick number from which the metric recomputation stops returning early.
PerfWarmup == 10

\* Cadence of the metric recomputation, in ticks.
PerfCadence == 10

\* Cadence of the simulated unguarded write, in ticks.
RaceCadence == 100

\* Length of one tick in ms.
TickMs == 100

\* Configured periods the runs are explored with (every one is >= 100, as the
\* speed inputs store them).
PeriodChoices == {100, 150, 200, 500, 800, 1000}

\* Periods of the runs of SpecOrder.
OrderPeriods == {100, 200, 500}

\* Characters of the texts typed into the speed inputs in SpecConfig.
InputChars == {"-", "0", "1", "a"}

\* Smallest period the speed inputs store.
MinSpeed == 100

\* Periods of the state after construction.
InitialProducerSpeed == 500

InitialConsumerSpeed == 800

\* Elapsed wall-clock time (ms) that a metric recomputation may read.
ElapsedChoices == {0, 1000, 2500}

----------------------------------------------------------------------------
\* Helpers.

Take(s, n) == IF Len(s) <= n THEN s ELSE SubSeq(s, 1, n)

\* parseFloat((n / d).toFixed(2)) in hundredths would be RoundDiv(100 * n, d).
RoundDiv(n, d) == (2 * n + d) \div (2 * d)

\* The set generateChunk draws from, values and priorities bounded.
generateChunk(maxValue, maxPriority) ==
  [value : 1..maxValue, priority : 1..maxPriority]

\* Snapshot of the React state of one render.
Snapshot ==
  [isRunning |-> isRunning, buffer |-> buffer, sharedMemory |-> sharedMemory,
   lockHeldBy |-> lockHeldBy, resources |-> resources,
   processAState |-> processAState, processBState |-> processBState,
   logs |-> logs, metrics |-> metrics, perfMetrics |-> perfMetrics]

\* An addLog that inserts at the tail of the stream.
addLogAtTail(P, type, message) ==
  [P EXCEPT !.logs = Take(@ \o <<[type |-> type, message |-> message]>>, LogLimit)]

addLog(P, type, message) ==
  [P EXCEPT !.logs = Take(<<[type |-> type, message |-> message]>> \o @, LogLimit)]

\* The updaters handed to setMetrics: m => ({ ...m, field: m.field + 1 }).
countProduced(m) == [m EXCEPT !.produced = @ + 1]

\* A consume counter written without the spread of the previous metrics.
countConsumedNoSpread(m) == [INITIAL_METRICS EXCEPT !.consumed = m.consumed + 1]

countConsumed(m) == [m EXCEPT !.consumed = @ + 1]

waitedA(m) == [m EXCEPT !.aWaitTime = @ + 1]

waitedB(m) == [m EXCEPT !.bWaitTime = @ + 1]

----------------------------------------------------------------------------
\* Resource deadlock simulation.  S is the snapshot the callback closed over,
\* P the pending state the updates of this tick have produced so far.

\* A deadlock test that does not look at the other actor's request.
circularWaitUnchecked(S) == TRUE

\* The test under which a blocked A declares the deadlock.
circularWaitSeenByA(S) == S.resources.R1.requestedBy = "B"

\* The test under which a blocked B declares the deadlock.
circularWaitSeenByB(S) == S.resources.R2.requestedBy = "A"

runDeadlockProcessA(S, P) ==
  IF S.resources.deadlock THEN [P EXCEPT !.processAState = "DEADLOCKED"]
  ELSE
    LET P1 == IF S.resources.R1.heldBy = Null
              THEN addLog([P EXCEPT !.resources.R1 = [heldBy |-> "A", requestedBy |-> Null],
                                    !.processAState = "RUNNING"],
                          "INFO", <<"[P-A] Acquired Resource R1.">>)
              ELSE IF S.resources.R1.heldBy = "B"
              THEN addLog([P EXCEPT !.resources.R1.requestedBy = "A",
                                    !.processAState = "BLOCKED",
                                    !.metrics = waitedA(@)],
                          "WARNING", <<"[P-A] Waiting for R1 (held by P-B).">>)
              ELSE P
    IN IF S.resources.R1.heldBy = "A" /\ S.resources.R2.heldBy = Null
       THEN [addLog([P1 EXCEPT !.processAState = "RUNNING"],
                    "INFO", <<"[P-A] Acquired Resource R2. Task Complete!">>)
               EXCEPT !.resources = INITIAL_RESOURCE_STATE]
       ELSE IF S.resources.R1.heldBy = "A" /\ S.resources.R2.heldBy = "B"
       THEN [P1 EXCEPT !.resources.R2.requestedBy = "A",
                       !.processAState = "BLOCKED",
                       !.metrics = waitedA(@),
                       !.resources.deadlock = IF circularWaitSeenByA(S) THEN TRUE ELSE @]
       ELSE P1

runDeadlockProcessB(S, P) ==
  IF S.resources.deadlock THEN [P EXCEPT !.processBState = "DEADLOCKED"]
  ELSE
    LET P1 == IF S.resources.R2.heldBy = Null
              THEN addLog([P EXCEPT !.resources.R2 = [heldBy |-> "B", requestedBy |-> Null],
                                    !.processBState = "RUNNING"],
                          "INFO", <<"[P-B] Acquired Resource R2.">>)
              ELSE IF S.resources.R2.heldBy = "A"
              THEN addLog([P EXCEPT !.resources.R2.requestedBy = "B",
                                    !.processBState = "BLOCKED",
                                    !.metrics = waitedB(@)],
                          "WARNING", <<"[P-B] Waiting for R2 (held by P-A).">>)
              ELSE P
    IN IF S.resources.R2.heldBy = "B" /\ S.resources.R1.heldBy = Null
       THEN [addLog([P1 EXCEPT !.processBState = "RUNNING"],
                    "INFO", <<"[P-B] Acquired Resource R1. Task Complete!">>)
               EXCEPT !.resources = INITIAL_RESOURCE_STATE]
       ELSE IF S.resources.R2.heldBy = "B" /\ S.resources.R1.heldBy = "A"
       THEN [P1 EXCEPT !.resources.R1.requestedBy = "B",
                       !.processBState = "BLOCKED",
                       !.metrics = waitedB(@),
                       !.resources.deadlock = IF circularWaitSeenByB(S) THEN TRUE ELSE @]
       ELSE P1

----------------------------------------------------------------------------
\* Process A (producer / writer).  chunk is the result of generateChunk().

\* A test for room that is off by one.
hasRoomInclusive(S) == Len(S.buffer) <= MAX_BUFFER_SIZE

\* The producer's test for room in the buffer.
hasRoom(S) == Len(S.buffer) < MAX_BUFFER_SIZE

\* A writer that never releases the lock.
writeSharedMemoryNoRelease(S, P) ==
  LET newValue == S.sharedMemory.value + 1
  IN addLog([P EXCEPT !.lockHeldBy = "A",
                      !.processAState = "RUNNING",
                      !.sharedMemory = [value |-> newValue,
                                        accessed |-> S.sharedMemory.accessed + 1],
                      !.metrics = countProduced(@)],
            "INFO", <<"[P-A] Wrote to Shared Mem. Lock Acquired.", newValue>>)

\* The critical section of the writer: acquire, write, count, release.
writeSharedMemory(S, P) ==
  LET newValue == S.sharedMemory.value + 1
      acquired == [P EXCEPT !.lockHeldBy = "A",
                            !.processAState = "RUNNING",
                            !.sharedMemory = [value |-> newValue,
                                              accessed |-> S.sharedMemory.accessed + 1],
                            !.metrics = countProduced(@)]
      logged == addLog(acquired, "INFO",
                       <<"[P-A] Wrote to Shared Mem. Lock Acquired.", newValue>>)
  IN addLog([logged EXCEPT !.lockHeldBy = Null], "INFO", <<"[P-A] Lock Released.">>)

\* A writer that finds the lock taken on every attempt.
lockHeldByReaderAlways(S) == TRUE

\* The writer's test for a lock taken by the reader: if (lockHeldBy === 'B').
lockHeldByReader(S) == S.lockHeldBy = "B"

runProcessA(S, P, chunk) ==
  IF ipcType = RESOURCES_DEADLOCK THEN runDeadlockProcessA(S, P)
  ELSE IF ipcType = PIPE \/ ipcType = QUEUE
  THEN IF hasRoom(S)
       THEN addLog([P EXCEPT !.buffer = Append(@, chunk),
                             !.metrics = countProduced(@),
                             !.processAState = "RUNNING"],
                   "INFO", <<"[P-A] Produced chunk", chunk.value, chunk.priority,
                             Len(S.buffer) + 1>>)
       ELSE addLog([P EXCEPT !.processAState = "BLOCKED",
                             !.metrics = waitedA(@)],
                   "WARNING", <<"[P-A] Buffer Full. Producer Blocked (Bottleneck)">>)
  ELSE IF ipcType = SHARED_MEMORY
  THEN IF lockHeldByReader(S)
       THEN [P EXCEPT !.processAState = "WAITING", !.metrics = waitedA(@)]
       ELSE IF S.lockHeldBy = Null THEN writeSharedMemory(S, P)
       ELSE P
  ELSE P

----------------------------------------------------------------------------
\* Process B (consumer / reader).

\* prev.slice(0, -1): a consume that removes the newest item.
sliceLast(prev) == IF prev = <<>> THEN <<>> ELSE SubSeq(prev, 1, Len(prev) - 1)

\* prev.slice(1)
sliceHead(prev) == IF prev = <<>> THEN <<>> ELSE Tail(prev)

\* prev.filter((_, index) => index !== i), indices counted from 1.
filterIndex(prev, i) ==
  IF i \in 1..Len(prev)
  THEN [j \in 1..(Len(prev) - 1) |-> IF j < i THEN prev[j] ELSE prev[j + 1]]
  ELSE prev

\* A reduce callback that compares with <=, so that the last minimum wins.
betterIndexLastWins(buf, bestIndex, currentIndex) ==
  IF buf[currentIndex].priority <= buf[bestIndex].priority THEN currentIndex ELSE bestIndex

\* One step of the reduce callback: the index that is kept.
betterIndex(buf, bestIndex, currentIndex) ==
  IF buf[currentIndex].priority < buf[bestIndex].priority THEN currentIndex ELSE bestIndex

\* buffer.reduce(callback, 0) over the elements from..Len(buf), indices from 1.
RECURSIVE reduceFrom(_, _, _)
reduceFrom(buf, bestIndex, from) ==
  IF from > Len(buf) THEN bestIndex
  ELSE reduceFrom(buf, betterIndex(buf, bestIndex, from), from + 1)

highestPriorityIndex(buf) == reduceFrom(buf, 1, 1)

\* The critical section of the reader: acquire, read, release, count.
readSharedMemory(S, P) ==
  LET readValue == S.sharedMemory.value
      acquired == addLog([P EXCEPT !.lockHeldBy = "B", !.processBState = "RUNNING"],
                         "INFO", <<"[C-B] Read from Shared Mem. Lock Acquired.", readValue>>)
  IN addLog([acquired EXCEPT !.lockHeldBy = Null, !.metrics = countConsumed(@)],
            "INFO", <<"[C-B] Lock Released.">>)

runProcessB(S, P) ==
  IF ipcType = RESOURCES_DEADLOCK THEN runDeadlockProcessB(S, P)
  ELSE IF Len(S.buffer) = 0
  THEN addLog([P EXCEPT !.processBState = "BLOCKED", !.metrics = waitedB(@)],
              "WARNING", <<"[C-B] Buffer Empty. Consumer Blocked (Starvation)">>)
  ELSE IF ipcType = PIPE
  THEN LET chunk == S.buffer[1]
       IN addLog([P EXCEPT !.buffer = sliceHead(@),
                           !.metrics = countConsumed(@),
                           !.processBState = "RUNNING"],
                 "INFO", <<"[C-B] Consumed chunk (FIFO)", chunk.value, Len(S.buffer) - 1>>)
  ELSE IF ipcType = QUEUE
  THEN LET index == highestPriorityIndex(S.buffer)
           chunk == S.buffer[index]
       IN addLog([P EXCEPT !.buffer = filterIndex(@, index),
                           !.metrics = countConsumed(@),
                           !.processBState = "RUNNING"],
                 "INFO", <<"[C-B] Consumed chunk (PRIO)", chunk.value, chunk.priority,
                           Len(S.buffer) - 1>>)
  ELSE IF ipcType = SHARED_MEMORY
  THEN IF S.lockHeldBy = "A"
       THEN [P EXCEPT !.processBState = "WAITING", !.metrics = waitedB(@)]
       ELSE IF S.lockHeldBy = Null THEN readSharedMemory(S, P)
       ELSE P
  ELSE P

----------------------------------------------------------------------------
\* Derived metrics.  elapsedMs is Date.now() - metrics.startTime.

calculatePerformanceMetrics(S, P, elapsedMs) ==
  IF S.metrics.cycle < PerfWarmup THEN P
  ELSE
    LET totalProcessed == S.metrics.consumed + S.metrics.produced
        throughput == IF elapsedMs > 0
                      THEN RoundDiv(totalProcessed * 1000 * 100, elapsedMs) ELSE 0
        avgWaitTimeA == IF S.metrics.produced > 0
                        THEN RoundDiv(S.metrics.aWaitTime * 100 * 100, S.metrics.produced)
                        ELSE 0
        avgWaitTimeB == IF S.metrics.consumed > 0
                        THEN RoundDiv(S.metrics.bWaitTime * 100 * 100, S.metrics.consumed)
                        ELSE 0
    IN [P EXCEPT !.perfMetrics = [throughput |-> throughput,
                                  avgWaitTimeA |-> avgWaitTimeA,
                                  avgWaitTimeB |-> avgWaitTimeB]]

----------------------------------------------------------------------------
\* Analysis and reporting.

\* A deadlock report that leaves the driver as it is.
haltedRunningKept(running) == running

\* The running flag after Diagnostics has reported the deadlock.
haltedRunning(running) == FALSE

\* A Diagnostics that reports a deadlock on every ResourcePair tick.
deadlockReportedAlways(S) == TRUE

\* The condition under which Diagnostics reports and halts: if (resources.deadlock).
deadlockReported(S) == S.resources.deadlock

detectIssues(S, P) ==
  IF ipcType = RESOURCES_DEADLOCK
  THEN IF deadlockReported(S)
       THEN [addLog(P, "DEADLOCK", <<"!!! DEADLOCK DETECTED !!!">>)
               EXCEPT !.processAState = "DEADLOCKED",
                      !.processBState = "DEADLOCKED",
                      !.isRunning = haltedRunning(@)]
       ELSE P
  ELSE
    LET P1 == IF Len(S.buffer) = MAX_BUFFER_SIZE /\ S.processAState = "BLOCKED"
              THEN addLog(P, "WARNING", <<"Bottleneck: Persistent Producer Blocking (Consumer too slow)">>)
              ELSE P
        P2 == IF Len(S.buffer) = 0 /\ S.processBState = "BLOCKED"
              THEN addLog(P1, "WARNING", <<"Starvation: Persistent Consumer Blocking (Producer too slow)">>)
              ELSE P1
        P3 == IF /\ ipcType = SHARED_MEMORY
                 /\ S.processAState = "WAITING"
                 /\ S.processBState = "WAITING"
                 /\ S.lockHeldBy # Null
              THEN addLog(P2, "WARNING", <<"High Contention: Both processes are constantly waiting for the Mutex.">>)
              ELSE P2
    IN IF /\ ipcType = SHARED_MEMORY
          /\ S.metrics.cycle % RaceCadence = 0
          /\ S.metrics.cycle > 0
       THEN addLog([P3 EXCEPT !.sharedMemory.value = @ * 2,
                              !.sharedMemory.accessed = @ + 1],
                   "ERROR", <<"RACE CONDITION DETECTED! Data modified without lock protection (Simulated).">>)
       ELSE P3

----------------------------------------------------------------------------
\* The scheduler.

\* cycle % (speed / 100) === 0 in IEEE double arithmetic, for cycle < 2^30.
\* speed / 100 is exact when speed is a multiple of 25 (a multiple of 1/4), and
\* the remainder of two doubles is exact, so the test is 100 * cycle mod speed.
\* For any other speed the quotient is rounded to a double whose odd
\* numerator exceeds every tick number explored, which no cycle is a multiple of.
actsOn(cycle, speed) ==
  IF speed % 25 = 0 THEN (TickMs * cycle) % speed = 0 ELSE FALSE

\* A scheduler that leaves the phase of a resting actor alone.
restingPhaseKept(snapshotPhase, pendingPhase) == pendingPhase

\* The phase of an actor on a tick where it does not act:
\* else if (processState !== 'DEADLOCKED') setProcessState('IDLE').
restingPhase(snapshotPhase, pendingPhase) ==
  IF snapshotPhase # "DEADLOCKED" THEN "IDLE" ELSE pendingPhase

\* The body of the setInterval callback, from the snapshot S and the
\* incremented cycleRef, to the state the next render shows.
intervalCallback(S, cycle, chunk, elapsedMs) ==
  LET P0 == [S EXCEPT !.metrics.cycle = @ + 1]
      P1 == IF cycle % PerfCadence = 0
            THEN calculatePerformanceMetrics(S, P0, elapsedMs) ELSE P0
      P2 == IF actsOn(cycle, producerSpeed) THEN runProcessA(S, P1, chunk)
            ELSE [P1 EXCEPT !.processAState = restingPhase(S.processAState, @)]
      P3 == IF actsOn(cycle, consumerSpeed) THEN runProcessB(S, P2)
            ELSE [P2 EXCEPT !.processBState = restingPhase(S.processBState, @)]
  IN detectIssues(S, P3)

\* One tick of the running driver.
Tick(maxTick, maxTickLong, chunks) ==
  /\ isRunning
  /\ cycleRef < (IF ipcType \in {PIPE, QUEUE} THEN maxTick ELSE maxTickLong)
  /\ \E chunk \in chunks, elapsedMs \in ElapsedChoices :
       \E R \in {intervalCallback(Snapshot, cycleRef + 1, chunk, elapsedMs)} :
         /\ cycleRef' = cycleRef + 1
         /\ isRunning' = R.isRunning
         /\ buffer' = R.buffer
         /\ sharedMemory' = R.sharedMemory
         /\ lockHeldBy' = R.lockHeldBy
         /\ resources' = R.resources
         /\ processAState' = R.processAState
         /\ processBState' = R.processBState
         /\ logs' = R.logs
         /\ metrics' = R.metrics
         /\ perfMetrics' = R.perfMetrics
  /\ lastOp' = "tick"
  /\ UNCHANGED <<ipcType, producerSpeed, consumerSpeed>>

\* A toggle that restarts the tick counter when it stops the driver.
toggleRunningRestartsCycle ==
  /\ isRunning' = ~isRunning
  /\ lastOp' = IF isRunning THEN "pause" ELSE "start"
  /\ cycleRef' = IF isRunning THEN 0 ELSE cycleRef
  /\ UNCHANGED <<ipcType, producerSpeed, consumerSpeed, buffer, sharedMemory,
                 lockHeldBy, resources, processAState, processBState, logs,
                 metrics, perfMetrics>>

\* The Start/Pause button.
toggleRunning ==
  /\ isRunning' = ~isRunning
  /\ lastOp' = IF isRunning THEN "pause" ELSE "start"
  /\ UNCHANGED <<ipcType, producerSpeed, consumerSpeed, buffer, sharedMemory,
                 lockHeldBy, resources, processAState, processBState, logs,
                 metrics, perfMetrics, cycleRef>>

\* A reset that keeps the event log.
resetSimulationKeepsLogs ==
  /\ isRunning' = FALSE
  /\ buffer' = <<>>
  /\ sharedMemory' = INITIAL_SHARED_MEMORY
  /\ lockHeldBy' = INITIAL_LOCK_STATE
  /\ resources' = INITIAL_RESOURCE_STATE
  /\ processAState' = INITIAL_PROCESS_STATE
  /\ processBState' = INITIAL_PROCESS_STATE
  /\ metrics' = INITIAL_METRICS
  /\ perfMetrics' = INITIAL_PERF_METRICS
  /\ cycleRef' = 0
  /\ lastOp' = "reset"
  /\ UNCHANGED <<ipcType, producerSpeed, consumerSpeed, logs>>

\* The Reset button.
resetSimulation ==
  /\ isRunning' = FALSE
  /\ buffer' = <<>>
  /\ sharedMemory' = INITIAL_SHARED_MEMORY
  /\ lockHeldBy' = INITIAL_LOCK_STATE
  /\ resources' = INITIAL_RESOURCE_STATE
  /\ processAState' = INITIAL_PROCESS_STATE
  /\ processBState' = INITIAL_PROCESS_STATE
  /\ logs' = <<>>
  /\ metrics' = INITIAL_METRICS
  /\ perfMetrics' = INITIAL_PERF_METRICS
  /\ cycleRef' = 0
  /\ lastOp' = "reset"
  /\ UNCHANGED <<ipcType, producerSpeed, consumerSpeed>>

----------------------------------------------------------------------------
\* Configuration: the speed inputs and the mechanism selector.

Digits == {"0", "1", "2", "3", "4", "5", "6", "7", "8", "9"}

DigitValue(c) ==
  CASE c = "0" -> 0 [] c = "1" -> 1 [] c = "2" -> 2 [] c = "3" -> 3 [] c = "4" -> 4
    [] c = "5" -> 5 [] c = "6" -> 6 [] c = "7" -> 7 [] c = "8" -> 8 [] c = "9" -> 9

\* The texts of at most n characters.
Texts(n) == UNION {[1..k -> InputChars] : k \in 0..n}

\* The decimal digits at the front of text, read as a number; nan when there
\* are none.
RECURSIVE leadingDigits(_, _, _)
leadingDigits(text, value, seen) ==
  IF text = <<>> \/ Head(text) \notin Digits
  THEN [nan |-> ~seen, n |-> value]
  ELSE leadingDigits(Tail(text), 10 * value + DigitValue(Head(text)), TRUE)

\* parseInt(text): an optional sign, then the leading decimal digits.
parseInt(text) ==
  IF text # <<>> /\ Head(text) = "-"
  THEN LET r == leadingDigits(Tail(text), 0, FALSE) IN [r EXCEPT !.n = 0 - @]
  ELSE leadingDigits(text, 0, FALSE)

\* A clamp that lets every parsed number through.
clampSpeedUnclamped(text) ==
  LET r == parseInt(text) IN IF r.nan THEN MinSpeed ELSE r.n

\* Math.max(100, parseInt(text) || 100)
clampSpeed(text) ==
  LET r == parseInt(text)
      orDefault == IF r.nan \/ r.n = 0 THEN MinSpeed ELSE r.n
  IN IF orDefault > MinSpeed THEN orDefault ELSE MinSpeed

\* The periods the texts of at most n characters are stored as.
StoredSpeeds(n) == {clampSpeed(text) : text \in Texts(n)}

\* onChange of the producer speed input (disabled while running).
setProducerSpeedInput ==
  /\ ~isRunning
  /\ \E speed \in StoredSpeeds(MaxInputLen) : producerSpeed' = speed
  /\ lastOp' = "speedA"
  /\ UNCHANGED <<isRunning, ipcType, consumerSpeed, buffer, sharedMemory,
                 lockHeldBy, resources, processAState, processBState, logs,
                 metrics, perfMetrics, cycleRef>>

\* onChange of the consumer speed input (disabled while running).
setConsumerSpeedInput ==
  /\ ~isRunning
  /\ \E speed \in StoredSpeeds(MaxInputLen) : consumerSpeed' = speed
  /\ lastOp' = "speedB"
  /\ UNCHANGED <<isRunning, ipcType, producerSpeed, buffer, sharedMemory,
                 lockHeldBy, resources, processAState, processBState, logs,
                 metrics, perfMetrics, cycleRef>>

\* A selector that changes the mechanism without the reset.
selectMechanismNoReset ==
  /\ ~isRunning
  /\ \E type \in IPC_TYPES \ {ipcType} : ipcType' = type
  /\ lastOp' = "select"
  /\ UNCHANGED <<isRunning, producerSpeed, consumerSpeed, buffer, sharedMemory,
                 lockHeldBy, resources, processAState, processBState, logs,
                 metrics, perfMetrics, cycleRef>>

\* onChange of the mechanism selector (disabled while running):
\* setIpcType(value); resetSimulation().
selectMechanism ==
  /\ ~isRunning
  /\ \E type \in IPC_TYPES \ {ipcType} : ipcType' = type
  /\ isRunning' = FALSE
  /\ buffer' = <<>>
  /\ sharedMemory' = INITIAL_SHARED_MEMORY
  /\ lockHeldBy' = INITIAL_LOCK_STATE
  /\ resources' = INITIAL_RESOURCE_STATE
  /\ processAState' = INITIAL_PROCESS_STATE
  /\ processBState' = INITIAL_PROCESS_STATE
  /\ logs' = <<>>
  /\ metrics' = INITIAL_METRICS
  /\ perfMetrics' = INITIAL_PERF_METRICS
  /\ cycleRef' = 0
  /\ lastOp' = "select"
  /\ UNCHANGED <<producerSpeed, consumerSpeed>>

----------------------------------------------------------------------------
\* Specifications.

\* The state after construction, with the configuration already chosen
\* through the mechanism selector and the speed inputs.
Constructed(types, periods) ==
  /\ isRunning = FALSE
  /\ ipcType \in types
  /\ producerSpeed \in periods
  /\ consumerSpeed \in periods
  /\ buffer = <<>>
  /\ sharedMemory = INITIAL_SHARED_MEMORY
  /\ lockHeldBy = INITIAL_LOCK_STATE
  /\ resources = INITIAL_RESOURCE_STATE
  /\ processAState = INITIAL_PROCESS_STATE
  /\ processBState = INITIAL_PROCESS_STATE
  /\ logs = <<>>
  /\ metrics = INITIAL_METRICS
  /\ perfMetrics = INITIAL_PERF_METRICS
  /\ cycleRef = 0
  /\ lastOp = "init"

\* Spec: every mechanism, long runs, chunks of few kinds.
Init == Constructed(IPC_TYPES, PeriodChoices)

TickDeep == Tick(MaxTick, MaxTickLong, generateChunk(1, MaxDeepPriority))

Next == TickDeep \/ toggleRunning \/ resetSimulation

Spec == Init /\ [][Next]_vars

\* SpecOrder: the two buffer mechanisms, short runs, chunks of every priority.
InitOrder == Constructed({PIPE, QUEUE}, OrderPeriods)

TickOrder == Tick(MaxTickOrder, MaxTickOrder, generateChunk(MaxChunkValue, NumPriorities))

NextOrder == TickOrder \/ toggleRunning \/ resetSimulation

SpecOrder == InitOrder /\ [][NextOrder]_vars

\* SpecConfig: the state after construction, with the speed inputs and the
\* mechanism selector as actions, short runs.
InitConfig ==
  /\ Constructed({PIPE}, {InitialProducerSpeed, InitialConsumerSpeed})
  /\ producerSpeed = InitialProducerSpeed
  /\ consumerSpeed = InitialConsumerSpeed

TickConfig == Tick(MaxTickConfig, MaxTickConfig, generateChunk(1, 1))

NextConfig ==
  \/ TickConfig
  \/ toggleRunning
  \/ resetSimulation
  \/ setProducerSpeedInput
  \/ setConsumerSpeedInput
  \/ selectMechanism

SpecConfig == InitConfig /\ [][NextConfig]_vars

\* SpecPair: ResourcePair mode with the driver left running: started, never
\* paused, never reset, and restarted whenever Diagnostics has halted it.
\* The two tick counters grow without bound in the program.  Every test the
\* code makes on them in this mode is a test modulo a divisor of CycleHorizon
\* ticks (cycle % 10, cycle % (speed / 100)) or the comparison with the warm-up
\* (metrics.cycle < 10), so they are stored folded into 0..PerfWarmup +
\* CycleHorizon - 1, which lets a run that never deadlocks close into a cycle.
PairPeriods == {p \in PeriodChoices : p % TickMs = 0}

\* A common multiple, in ticks, of PerfCadence and of every period of PairPeriods.
CycleHorizon == 40

foldCycle(c) == IF c >= PerfWarmup + CycleHorizon THEN c - CycleHorizon ELSE c

TickPair ==
  /\ isRunning
  /\ \E chunk \in generateChunk(1, 1), elapsedMs \in ElapsedChoices :
       \E R \in {intervalCallback(Snapshot, cycleRef + 1, chunk, elapsedMs)} :
         /\ cycleRef' = foldCycle(cycleRef + 1)
         /\ isRunning' = R.isRunning
         /\ buffer' = R.buffer
         /\ sharedMemory' = R.sharedMemory
         /\ lockHeldBy' = R.lockHeldBy
         /\ resources' = R.resources
         /\ processAState' = R.processAState
         /\ processBState' = R.processBState
         /\ logs' = R.logs
         /\ metrics' = [R.metrics EXCEPT !.cycle = foldCycle(@)]
         /\ perfMetrics' = R.perfMetrics
  /\ lastOp' = "tick"
  /\ UNCHANGED <<ipcType, producerSpeed, consumerSpeed>>

\* The Start/Pause button, pressed only while the driver is stopped.
startDriver == ~isRunning /\ toggleRunning

InitPair == Constructed({RESOURCES_DEADLOCK}, PairPeriods)

NextPair == TickPair \/ startDriver

\* The interval fires every 100 ms for as long as isRunning holds, and the
\* driver is started again whenever it is stopped.
SpecPair == InitPair /\ [][NextPair]_vars /\ WF_vars(TickPair) /\ WF_vars(startDriver)

----------------------------------------------------------------------------
\* Properties.

BufferMode == ipcType \in {PIPE, QUEUE}

\* A step of the model that is one tick of the driver.
TickStep == lastOp' = "tick"

\* C1: in Pipe and PriorityQueue mode the buffer length is always between 0
\* and the capacity 10, after any sequence of ticks, pauses, resumes and resets.
BufferBounded ==
  BufferMode => (Len(buffer) >= 0 /\ Len(buffer) <= MAX_BUFFER_SIZE)

\* Witness of C1: the buffer is at capacity and the producer was turned away.
BufferFullProducerBlocked ==
  BufferMode /\ Len(buffer) = MAX_BUFFER_SIZE /\ processAState = "BLOCKED"

\* The items the producer may have appended during one tick of SpecOrder.
Appended == {<<>>} \cup {<<c>> : c \in generateChunk(MaxChunkValue, NumPriorities)}

\* The first k records of the log carry a message of this kind and payload.
Emitted(log, k, message) ==
  \E i \in 1..k : i <= Len(log) /\ log[i].message = message

\* C2: in Pipe mode every successful consume removes the head of the buffer
\* (the oldest item), reports that item, and leaves the rest in order, also
\* when the producer appends in the same tick.
FifoOrder ==
  [][(ipcType = PIPE /\ TickStep /\ metrics'.consumed # metrics.consumed) =>
       /\ buffer # <<>>
       /\ metrics'.consumed = metrics.consumed + 1
       /\ \E app \in Appended : buffer' = Tail(buffer) \o app
       /\ Emitted(logs', 2, <<"[C-B] Consumed chunk (FIFO)", Head(buffer).value,
                              Len(buffer) - 1>>)]_vars

\* Witness of C2: a tick in which A produced and B consumed, with older items
\* left in the pipe.
FifoConsumeWithProduce ==
  /\ ipcType = PIPE /\ lastOp = "tick" /\ Len(buffer) >= 2 /\ Len(logs) >= 2
  /\ logs[1].message[1] = "[C-B] Consumed chunk (FIFO)"
  /\ logs[2].message[1] = "[P-A] Produced chunk"

\* The smallest index among the items of numerically lowest priority.
FirstMinimum(buf) ==
  CHOOSE i \in 1..Len(buf) :
    /\ \A j \in 1..Len(buf) : buf[i].priority <= buf[j].priority
    /\ \A j \in 1..(i - 1) : buf[i].priority < buf[j].priority

WithoutIndex(buf, i) == SubSeq(buf, 1, i - 1) \o SubSeq(buf, i + 1, Len(buf))

\* C3: in PriorityQueue mode every successful consume removes exactly the
\* first item of lowest priority number and keeps the others in order, also
\* when the producer appends in the same tick.
PriorityOrder ==
  [][(ipcType = QUEUE /\ TickStep /\ metrics'.consumed # metrics.consumed) =>
       /\ buffer # <<>>
       /\ metrics'.consumed = metrics.consumed + 1
       /\ \E app \in Appended :
            buffer' = WithoutIndex(buffer, FirstMinimum(buffer)) \o app
       /\ LET chunk == buffer[FirstMinimum(buffer)]
          IN Emitted(logs', 2, <<"[C-B] Consumed chunk (PRIO)", chunk.value,
                                 chunk.priority, Len(buffer) - 1>>)]_vars

\* Witness of C3: a consume from contents of priorities [3,1,2,1] took a
\* priority-1 item and left [3,2,1] in front.
PriorityTieConsumed ==
  /\ ipcType = QUEUE /\ lastOp = "tick" /\ Len(buffer) >= 3
  /\ buffer[1].priority = 3 /\ buffer[2].priority = 2 /\ buffer[3].priority = 1
  /\ \E i \in 1..2 : /\ i <= Len(logs)
                     /\ logs[i].message[1] = "[C-B] Consumed chunk (PRIO)"
                     /\ logs[i].message[3] = 1
                     /\ logs[i].message[4] = 3

\* C4: the lock has at most one holder and is never held between ticks.
LockFreeBetweenTicks ==
  lockHeldBy \in {Null, "A", "B"} /\ lockHeldBy = Null

\* Witness of C4: the writer has been through its critical section.
WriterRanCriticalSection ==
  /\ ipcType = SHARED_MEMORY /\ lastOp = "tick"
  /\ processAState = "RUNNING" /\ metrics.produced > 0

BothActEveryTick == producerSpeed = 100 /\ consumerSpeed = 100

\* C5: in ResourcePair mode with both actors acting on every tick, deadlocked
\* becomes true at one fixed tick (the third), and from the tick after it both
\* actors are DEADLOCKED until reset.
DeadlockDeterminism ==
  (ipcType = RESOURCES_DEADLOCK /\ BothActEveryTick) =>
     /\ resources.deadlock <=> metrics.cycle >= 3
     /\ metrics.cycle >= 4 => (processAState = "DEADLOCKED" /\ processBState = "DEADLOCKED")

\* Witness of C5: the deadlocked pair after the driver was started again.
DeadlockedAfterRestart ==
  /\ ipcType = RESOURCES_DEADLOCK /\ BothActEveryTick
  /\ resources.deadlock /\ metrics.cycle >= 5 /\ lastOp = "tick"
  /\ processAState = "DEADLOCKED" /\ processBState = "DEADLOCKED"

\* The documented initial values of everything reset clears.
AllInitial ==
  /\ ~isRunning
  /\ buffer = <<>>
  /\ sharedMemory = [value |-> 0, accessed |-> 0]
  /\ lockHeldBy = Null
  /\ resources.R1 = [heldBy |-> Null, requestedBy |-> Null]
  /\ resources.R2 = [heldBy |-> Null, requestedBy |-> Null]
  /\ ~resources.deadlock
  /\ processAState = "IDLE" /\ processBState = "IDLE"
  /\ metrics = [produced |-> 0, consumed |-> 0, aWaitTime |-> 0, bWaitTime |-> 0, cycle |-> 0]
  /\ perfMetrics = [throughput |-> 0, avgWaitTimeA |-> 0, avgWaitTimeB |-> 0]
  /\ logs = <<>>
  /\ cycleRef = 0

\* C6: reset from any reachable state stops the driver and returns every
\* entity to its initial value; a second reset changes nothing.
ResetRestoresInitial ==
  [][lastOp' = "reset" =>
       /\ AllInitial'
       /\ UNCHANGED <<ipcType, producerSpeed, consumerSpeed>>
       /\ (lastOp = "reset" => UNCHANGED vars)]_vars

\* Witness of C6: the state a reset has left.
AfterReset == lastOp = "reset" /\ AllInitial

\* C7: on every step that is not a reset, producedCount, consumedCount and
\* tickCount never decrease.
CountersMonotonic ==
  [][lastOp' # "reset" =>
       /\ metrics'.produced >= metrics.produced
       /\ metrics'.consumed >= metrics.consumed
       /\ metrics'.cycle >= metrics.cycle]_vars

\* Witness of C7: a tick that consumed after several were produced.
ConsumedAfterProduced ==
  lastOp = "tick" /\ metrics.produced > 1 /\ metrics.consumed > 0 /\ processBState = "RUNNING"

PipeScenario == ipcType = PIPE /\ producerSpeed = 100 /\ consumerSpeed = 1000

\* C8 as stated: in the scenario the buffer holds 9 items after 10 ticks and
\* the producer is BLOCKED on tick 11.
ScenarioBlockedOnTick11 ==
  PipeScenario =>
     /\ metrics.cycle = 10 => Len(buffer) = 9
     /\ metrics.cycle = 11 => processAState = "BLOCKED"

\* C8 amended: the buffer holds 9 items after 10 ticks; tick 11 fills it to 10
\* with the producer RUNNING; the producer is BLOCKED on tick 12.
ScenarioBlockedOnTick12 ==
  PipeScenario =>
     /\ metrics.cycle = 10 => Len(buffer) = 9
     /\ metrics.cycle = 11 => (Len(buffer) = 10 /\ processAState = "RUNNING")
     /\ metrics.cycle = 12 => (Len(buffer) = 10 /\ processAState = "BLOCKED")

\* Witness of C8: the scenario at tick 12.
ScenarioAtTick12 ==
  PipeScenario /\ metrics.cycle = 12 /\ lastOp = "tick" /\ processAState = "BLOCKED"

\* C9 as stated: B's attempt sees the channel as A left it in the same tick,
\* so on an empty Pipe where both act B consumes the item A just produced.
ConsumerSeesProducerInSameTick ==
  [][(/\ TickStep /\ ipcType = PIPE /\ buffer = <<>>
      /\ actsOn(cycleRef', producerSpeed) /\ actsOn(cycleRef', consumerSpeed)) =>
       /\ metrics'.produced = metrics.produced + 1
       /\ metrics'.consumed = metrics.consumed + 1
       /\ processBState' = "RUNNING"
       /\ buffer' = <<>>]_vars

\* C10: pause changes the running flag and nothing else, no tick runs while
\* the driver is stopped, and resume leaves the tick count and state as they
\* were, so that the next tick continues from them.
PauseChangesOnlyRunning ==
  [][/\ lastOp' = "pause" =>
          (isRunning /\ ~isRunning' /\ engineState' = engineState
           /\ UNCHANGED <<ipcType, producerSpeed, consumerSpeed>>)
     /\ lastOp' = "start" =>
          (~isRunning /\ isRunning' /\ engineState' = engineState)
     /\ TickStep => (isRunning /\ cycleRef' = cycleRef + 1
                     /\ metrics'.cycle = metrics.cycle + 1)]_vars

\* Witness of C10: a run that was paused after it had made progress.
PausedMidRun ==
  lastOp = "pause" /\ ~isRunning /\ cycleRef > 0 /\ logs # <<>>

\* C11: after any sequence of configuration writes both periods are integers
\* >= 100, every sub-minimum, zero, negative or non-numeric text is stored as
\* 100 and every other text as its number, so periodMs / 100 is at least 1.
SpeedsClamped ==
  /\ producerSpeed \in Nat /\ producerSpeed >= 100 /\ producerSpeed \div 100 >= 1
  /\ consumerSpeed \in Nat /\ consumerSpeed >= 100 /\ consumerSpeed \div 100 >= 1
  /\ \A text \in Texts(MaxInputLen) :
       LET r == parseInt(text)
       IN clampSpeed(text) = IF r.nan \/ r.n < 100 THEN 100 ELSE r.n

\* Witness of C11: a write has replaced the constructed producer period by the
\* minimum, and another has stored a consumer period above it.
SpeedsWritten ==
  /\ lastOp \in {"speedA", "speedB"}
  /\ producerSpeed = 100 /\ consumerSpeed > 100 /\ consumerSpeed # 800

\* C12: changing the mechanism selector leaves the simulation in the full
\* reset state with the new mechanism active and the periods as they were.
SelectorResets ==
  [][lastOp' = "select" =>
       /\ AllInitial'
       /\ ipcType' \in IPC_TYPES /\ ipcType' # ipcType
       /\ UNCHANGED <<producerSpeed, consumerSpeed>>]_vars

\* Witness of C12: the state a mechanism change has left.
AfterSelect == lastOp = "select" /\ AllInitial /\ ipcType = RESOURCES_DEADLOCK

\* The texts of the events Producer A and Consumer B emit.
ProducerTexts ==
  {"[P-A] Acquired Resource R1.", "[P-A] Waiting for R1 (held by P-B).",
   "[P-A] Acquired Resource R2. Task Complete!", "[P-A] Produced chunk",
   "[P-A] Buffer Full. Producer Blocked (Bottleneck)",
   "[P-A] Wrote to Shared Mem. Lock Acquired.", "[P-A] Lock Released."}

ConsumerTexts ==
  {"[P-B] Acquired Resource R2.", "[P-B] Waiting for R2 (held by P-A).",
   "[P-B] Acquired Resource R1. Task Complete!",
   "[C-B] Buffer Empty. Consumer Blocked (Starvation)",
   "[C-B] Consumed chunk (FIFO)", "[C-B] Consumed chunk (PRIO)",
   "[C-B] Read from Shared Mem. Lock Acquired.", "[C-B] Lock Released."}

\* Position of the emitter of a record within a tick: A, then B, then Diagnostics.
EmitterRank(record) ==
  IF record.message[1] \in ProducerTexts THEN 1
  ELSE IF record.message[1] \in ConsumerTexts THEN 2 ELSE 3

\* C13: the event stream never holds more than 50 records and is newest
\* first: the events of a tick are inserted at the head, the oldest records are
\* dropped beyond 50, and within a tick the events of A are older than those of
\* B, which are older than those of Diagnostics, each in emission order.
EventStreamNewestFirst ==
  /\ [](Len(logs) <= 50)
  /\ [][TickStep =>
          /\ \E k \in 0..Len(logs') :
               LET new == SubSeq(logs', 1, k)
               IN /\ logs' = Take(new \o logs, 50)
                  /\ \A i, j \in 1..k : i < j => EmitterRank(new[i]) >= EmitterRank(new[j])
                  /\ (metrics'.produced + metrics'.aWaitTime + metrics'.consumed
                        + metrics'.bWaitTime
                      > metrics.produced + metrics.aWaitTime + metrics.consumed
                        + metrics.bWaitTime
                      /\ BufferMode) => k >= 1
          /\ (ipcType = SHARED_MEMORY /\ metrics'.produced > metrics.produced) =>
               \E i \in 1..(Len(logs') - 1) :
                 /\ logs'[i].message = <<"[P-A] Lock Released.">>
                 /\ logs'[i + 1].message =
                      <<"[P-A] Wrote to Shared Mem. Lock Acquired.", sharedMemory.value + 1>>
                 /\ \A j \in 1..(i - 1) : EmitterRank(logs'[j]) >= 2]_vars

\* Witness of C13: a full stream that has dropped older records, with an event
\* of Diagnostics in front of one of B in front of one of A.
EventStreamFull ==
  /\ lastOp = "tick" /\ Len(logs) = 50 /\ metrics.cycle >= 30
  /\ EmitterRank(logs[1]) = 3 /\ EmitterRank(logs[2]) = 2 /\ EmitterRank(logs[3]) = 1

\* C14: once deadlocked is true, no tick, pause or restart changes the
\* ResourcePair again (deadlocked stays true, holders and requesters stay),
\* and every tick of a restarted driver halts it again.
DeadlockTerminal ==
  [][(resources.deadlock /\ lastOp' \notin {"reset", "select"}) =>
       /\ resources' = resources
       /\ resources'.deadlock
       /\ TickStep => ~isRunning']_vars

\* Witness of C14: the deadlock has been reported a second time, after a
\* restart of the halted driver.
DeadlockReportedTwice ==
  /\ ipcType = RESOURCES_DEADLOCK /\ resources.deadlock /\ lastOp = "tick" /\ ~isRunning
  /\ Len(logs) >= 2 /\ logs[1].type = "DEADLOCK" /\ logs[2].type = "DEADLOCK"

\* Math.round(periodMs / 100) for a positive period.
RoundedModulus(periodMs) == (periodMs + 50) \div 100

\* In the buffer mechanisms every attempt of A moves produced or aWaitTime,
\* and every attempt of B moves consumed or bWaitTime.
ProducerAttempted ==
  metrics'.produced + metrics'.aWaitTime = metrics.produced + metrics.aWaitTime + 1

ConsumerAttempted ==
  metrics'.consumed + metrics'.bWaitTime = metrics.consumed + metrics.bWaitTime + 1

\* C15 as stated: for every period >= 100 and every tick t, the actor performs
\* its operation on tick t exactly if t mod round(periodMs / 100) = 0.
ActsOnRoundedModulus ==
  [][(TickStep /\ BufferMode) =>
       /\ ProducerAttempted <=> (cycleRef' % RoundedModulus(producerSpeed) = 0)
       /\ ConsumerAttempted <=> (cycleRef' % RoundedModulus(consumerSpeed) = 0)]_vars

\* C16 as stated: an actor that does not act on a tick ends the tick IDLE
\* unless its phase was DEADLOCKED, and a DEADLOCKED phase is kept until reset.
RestingActorIdle ==
  [][/\ (TickStep /\ ~actsOn(cycleRef', producerSpeed) /\ processAState # "DEADLOCKED")
          => processAState' = "IDLE"
     /\ (TickStep /\ ~actsOn(cycleRef', consumerSpeed) /\ processBState # "DEADLOCKED")
          => processBState' = "IDLE"
     /\ (processAState = "DEADLOCKED" /\ lastOp' # "reset") => processAState' = "DEADLOCKED"
     /\ (processBState = "DEADLOCKED" /\ lastOp' # "reset") => processBState' = "DEADLOCKED"]_vars

\* Diagnostics forces both phases on a tick that begins with the deadlock set.
DeadlockForced == ipcType = RESOURCES_DEADLOCK /\ resources.deadlock

\* C16 amended: an actor that does not act on a tick ends the tick IDLE unless
\* its phase was DEADLOCKED or the tick began in ResourcePair mode with
\* deadlocked true, in which cases it ends the tick DEADLOCKED; a DEADLOCKED
\* phase is kept until reset.
RestingActorIdleOrForced ==
  [][/\ (TickStep /\ ~actsOn(cycleRef', producerSpeed)) =>
          processAState' = IF processAState = "DEADLOCKED" \/ DeadlockForced
                           THEN "DEADLOCKED" ELSE "IDLE"
     /\ (TickStep /\ ~actsOn(cycleRef', consumerSpeed)) =>
          processBState' = IF processBState = "DEADLOCKED" \/ DeadlockForced
                           THEN "DEADLOCKED" ELSE "IDLE"
     /\ (processAState = "DEADLOCKED" /\ lastOp' # "reset") => processAState' = "DEADLOCKED"
     /\ (processBState = "DEADLOCKED" /\ lastOp' # "reset") => processBState' = "DEADLOCKED"]_vars

\* Witness of C16: the first report of the deadlock fell on a tick on which B
\* did not act, and B is DEADLOCKED.
RestingActorForced ==
  /\ ipcType = RESOURCES_DEADLOCK /\ lastOp = "tick"
  /\ ~actsOn(cycleRef, consumerSpeed) /\ processBState = "DEADLOCKED"
  /\ logs # <<>> /\ logs[1].type = "DEADLOCK"
  /\ \A i \in 2..Len(logs) : logs[i].type # "DEADLOCK"

\* C17 as stated: in ResourcePair mode, when A acts on a tick with deadlocked
\* false and R1 free, A ends the tick RUNNING and holding R1.
AcquireOfFreeR1Kept ==
  [][(/\ TickStep /\ ipcType = RESOURCES_DEADLOCK /\ ~resources.deadlock
      /\ resources.R1.heldBy = Null /\ actsOn(cycleRef', producerSpeed)) =>
       (processAState' = "RUNNING" /\ resources'.R1.heldBy = "A")]_vars

\* C18 as stated: in SharedMemory mode, when B acts on a tick and the lock is
\* free, B becomes RUNNING and consumedCount increases by exactly 1.
ReaderConsumesWhenLockFree ==
  [][(/\ TickStep /\ ipcType = SHARED_MEMORY /\ lockHeldBy = Null
      /\ actsOn(cycleRef', consumerSpeed)) =>
       (processBState' = "RUNNING" /\ metrics'.consumed = metrics.consumed + 1)]_vars

\* The unguarded write: one access that no produce accounts for.
UnguardedWrite ==
  sharedMemory'.accessed - sharedMemory.accessed
    = (metrics'.produced - metrics.produced) + 1

\* C19 as stated: the unguarded write happens exactly on the SharedMemory
\* ticks whose number t (after the increment) has t > 0 and t mod 100 = 0.
RaceOnHundredthTick ==
  [][TickStep =>
       (UnguardedWrite <=>
          (ipcType = SHARED_MEMORY /\ cycleRef' > 0 /\ cycleRef' % 100 = 0))]_vars

\* C20 as stated: a buffer-mode tick that ends with the buffer at capacity and
\* the producer BLOCKED has emitted the bottleneck warning, and one that ends
\* with the buffer empty and the consumer BLOCKED the starvation warning.
WarningInSameTick ==
  [][(TickStep /\ BufferMode) =>
       /\ (Len(buffer') = MAX_BUFFER_SIZE /\ processAState' = "BLOCKED") =>
            logs'[1].message = <<"Bottleneck: Persistent Producer Blocking (Consumer too slow)">>
       /\ (buffer' = <<>> /\ processBState' = "BLOCKED") =>
            logs'[1].message = <<"Starvation: Persistent Consumer Blocking (Producer too slow)">>]_vars

\* The events of the bounded buffer: buffer full, buffer empty, and the two
\* warnings Diagnostics derives from them.
BufferEvents ==
  { <<"[P-A] Buffer Full. Producer Blocked (Bottleneck)">>,
    <<"[C-B] Buffer Empty. Consumer Blocked (Starvation)">>,
    <<"Bottleneck: Persistent Producer Blocking (Consumer too slow)">>,
    <<"Starvation: Persistent Consumer Blocking (Producer too slow)">> }

\* C21 as stated: bottleneck and starvation warnings, the buffer-full and
\* buffer-empty events and the BLOCKED phase they cause occur only in Pipe and
\* PriorityQueue mode; no SharedMemory or ResourcePair tick emits them.
BufferEventsOnlyInBufferModes ==
  /\ ~BufferMode => \A i \in 1..Len(logs) : logs[i].message \notin BufferEvents
  /\ ipcType = SHARED_MEMORY => (processAState # "BLOCKED" /\ processBState # "BLOCKED")

\* C22: in ResourcePair mode deadlocked is true only in a genuine circular
\* wait: A holds R1 and requests R2, B holds R2 and requests R1.
DeadlockIsCircularWait ==
  resources.deadlock =>
    /\ ipcType = RESOURCES_DEADLOCK
    /\ resources.R1.heldBy = "A" /\ resources.R2.heldBy = "B"
    /\ resources.R1.requestedBy = "B" /\ resources.R2.requestedBy = "A"

\* Witness of C22: the tick that declared the deadlock has just ended, and
\* Diagnostics has not yet reported it.
CircularWaitDeclared ==
  /\ ipcType = RESOURCES_DEADLOCK /\ resources.deadlock /\ lastOp = "tick"
  /\ isRunning /\ (logs = <<>> \/ logs[1].type # "DEADLOCK")

\* The report Diagnostics adds to the event stream.
DeadlockReport == [type |-> "DEADLOCK", message |-> <<"!!! DEADLOCK DETECTED !!!">>]

\* C23: in ResourcePair mode every tick that begins with deadlocked true ends
\* with a DEADLOCK event added to the event stream, both actors DEADLOCKED
\* (scheduled or not) and the driver stopped; without a new start command at
\* most one tick executes after the tick that set deadlocked.
DeadlockReportedAndHalted ==
  [][(TickStep /\ ipcType = RESOURCES_DEADLOCK /\ resources.deadlock) =>
       /\ logs' = Take(<<DeadlockReport>> \o logs, LogLimit)
       /\ processAState' = "DEADLOCKED" /\ processBState' = "DEADLOCKED"
       /\ ~isRunning'
       /\ lastOp = "tick" => (logs = <<>> \/ logs[1] # DeadlockReport)]_vars

\* Witness of C23: the deadlock was reported on a tick on which A was not
\* scheduled to act, and the driver has stopped.
DeadlockReportedWhileAResting ==
  /\ ipcType = RESOURCES_DEADLOCK /\ resources.deadlock /\ lastOp = "tick"
  /\ ~actsOn(cycleRef, producerSpeed)
  /\ logs # <<>> /\ logs[1] = DeadlockReport
  /\ processAState = "DEADLOCKED" /\ processBState = "DEADLOCKED" /\ ~isRunning

\* The length of the buffer at the moment B makes its attempt on this tick:
\* the length the tick began with, plus the item A has just appended.
LengthMetByConsumer ==
  Len(buffer) + (IF actsOn(cycleRef', producerSpeed) /\ Len(buffer) < MAX_BUFFER_SIZE
                 THEN 1 ELSE 0)

\* C24 as stated: in Pipe and PriorityQueue mode an attempt that cannot proceed
\* (produce on a full buffer, consume on an empty buffer) makes the actor
\* BLOCKED, adds 1 to its wait counter only and leaves the buffer and the
\* counts alone; an attempt that can proceed changes the buffer length by one,
\* adds 1 to the matching count, makes the actor RUNNING and leaves the wait
\* counters alone.
AttemptOutcome ==
  [][(TickStep /\ BufferMode) =>
       /\ actsOn(cycleRef', producerSpeed) =>
            IF Len(buffer) = MAX_BUFFER_SIZE
            THEN /\ processAState' = "BLOCKED"
                 /\ metrics'.aWaitTime = metrics.aWaitTime + 1
                 /\ metrics'.produced = metrics.produced
            ELSE /\ processAState' = "RUNNING"
                 /\ metrics'.aWaitTime = metrics.aWaitTime
                 /\ metrics'.produced = metrics.produced + 1
       /\ actsOn(cycleRef', consumerSpeed) =>
            IF LengthMetByConsumer = 0
            THEN /\ processBState' = "BLOCKED"
                 /\ metrics'.bWaitTime = metrics.bWaitTime + 1
                 /\ metrics'.consumed = metrics.consumed
            ELSE /\ processBState' = "RUNNING"
                 /\ metrics'.bWaitTime = metrics.bWaitTime
                 /\ metrics'.consumed = metrics.consumed + 1
       /\ ~actsOn(cycleRef', producerSpeed) =>
            (metrics'.aWaitTime = metrics.aWaitTime /\ metrics'.produced = metrics.produced)
       /\ ~actsOn(cycleRef', consumerSpeed) =>
            (metrics'.bWaitTime = metrics.bWaitTime /\ metrics'.consumed = metrics.consumed)
       /\ Len(buffer') = Len(buffer) + (metrics'.produced - metrics.produced)
                                     - (metrics'.consumed - metrics.consumed)]_vars

\* The tick has logged the unguarded write (its last event, when it occurs).
RaceLogged == logs' # logs /\ logs'[1].type = "ERROR"

\* C26: in SharedMemory mode, whenever A acts on a tick (the lock is free), A's
\* operation adds exactly 1 to value, to accessCount and to producedCount,
\* makes A RUNNING and leaves the lock free; apart from this and the unguarded
\* write (which doubles value) nothing changes value.
WriterAddsOne ==
  [][/\ (TickStep /\ ipcType = SHARED_MEMORY) =>
          LET wrote == IF actsOn(cycleRef', producerSpeed) /\ lockHeldBy = Null
                       THEN 1 ELSE 0
              raced == IF RaceLogged THEN 1 ELSE 0
          IN /\ sharedMemory'.value = (sharedMemory.value + wrote) * (1 + raced)
             /\ sharedMemory'.accessed = sharedMemory.accessed + wrote + raced
             /\ metrics'.produced = metrics.produced + wrote
             /\ wrote = 1 => (processAState' = "RUNNING" /\ lockHeldBy' = Null)
     /\ (~TickStep \/ ipcType # SHARED_MEMORY) =>
          \/ sharedMemory'.value = sharedMemory.value
          \/ (lastOp' \in {"reset", "select"} /\ sharedMemory' = INITIAL_SHARED_MEMORY)]_vars

\* Witness of C26: A has written on the tick of the unguarded write, and the
\* value is the doubled count of A's writes.
WriterAndRaceOnOneTick ==
  /\ ipcType = SHARED_MEMORY /\ lastOp = "tick" /\ processAState = "RUNNING"
  /\ logs # <<>> /\ logs[1].type = "ERROR"
  /\ metrics.produced > 0 /\ sharedMemory.value = 2 * metrics.produced
  /\ sharedMemory.accessed = metrics.produced + 1

\* C27: no warning or error halts the driver: a tick takes the driver from
\* running to stopped only in ResourcePair mode with deadlocked true; in Pipe,
\* PriorityQueue and SharedMemory mode only pause and reset stop it.
OnlyDeadlockHalts ==
  [][(isRunning /\ ~isRunning') =>
       \/ lastOp' \in {"pause", "reset"}
       \/ (TickStep /\ ipcType = RESOURCES_DEADLOCK /\ resources.deadlock)]_vars

\* Witness of C27: the driver is running after a tick that raised the error
\* of the unguarded write on top of a warning.
RunningAfterWarningAndError ==
  /\ isRunning /\ lastOp = "tick" /\ Len(logs) >= 2
  /\ logs[1].type = "ERROR" /\ logs[2].type = "WARNING"

\* The derived metrics of the counts m, after elapsedMs of run time.
Recomputed(m, elapsedMs) ==
  calculatePerformanceMetrics([metrics |-> m], [perfMetrics |-> INITIAL_PERF_METRICS],
                              elapsedMs).perfMetrics

\* C28 as stated: the derived metrics are recomputed on every tick t with
\* t mod 10 = 0 (tick 10 included) from the counts as they stand on that tick,
\* and are left unchanged on every other tick.
DerivedMetricsEveryTenthTick ==
  [][TickStep =>
       IF cycleRef' % 10 = 0
       THEN \E elapsedMs \in ElapsedChoices : perfMetrics' = Recomputed(metrics', elapsedMs)
       ELSE perfMetrics' = perfMetrics]_vars

\* C29: in Pipe and PriorityQueue mode the buffer length equals producedCount
\* minus consumedCount in every reachable state (no item is lost or
\* duplicated, also on ticks where A and B both act).
BufferLengthIsBalance ==
  BufferMode => Len(buffer) = metrics.produced - metrics.consumed

\* Witness of C29: a tick on which A produced and B consumed has ended, with
\* items left in the buffer.
ProducedAndConsumedOnOneTick ==
  /\ BufferMode /\ lastOp = "tick" /\ Len(logs) >= 2 /\ buffer # <<>>
  /\ processAState = "RUNNING" /\ processBState = "RUNNING"
  /\ logs[1].message[1] \in {"[C-B] Consumed chunk (FIFO)", "[C-B] Consumed chunk (PRIO)"}
  /\ logs[2].message[1] = "[P-A] Produced chunk"

\* C30 as stated: in ResourcePair mode with the driver left running and no
\* reset, deadlocked eventually becomes true for every pair of periods that
\* are multiples of 100.
EventuallyDeadlocked == <>resources.deadlock

\* The warning Diagnostics raises when both actors wait for the lock.
HighContention ==
  <<"High Contention: Both processes are constantly waiting for the Mutex.">>

\* C31: the phase WAITING is unreachable: in no mechanism and after no
\* sequence of ticks, pauses and resets is either actor WAITING, and the
\* high-contention warning is never emitted.  (An event emitted by a tick is
\* among the newest two of the stream when the tick ends: only the error of
\* the unguarded write can follow the warning.)
WaitingUnreachable ==
  /\ processAState # "WAITING" /\ processBState # "WAITING"
  /\ \A i \in 1..2 : i <= Len(logs) => logs[i].message # HighContention

\* Witness of C31: a SharedMemory tick on which both actors have attempted,
\* after several writes of A and several attempts of B.
BothAttemptedOnSharedMemory ==
  /\ ipcType = SHARED_MEMORY /\ lastOp = "tick" /\ lockHeldBy = Null
  /\ actsOn(cycleRef, producerSpeed) /\ actsOn(cycleRef, consumerSpeed)
  /\ metrics.produced >= 3 /\ metrics.bWaitTime >= 3
  /\ processAState = "RUNNING" /\ processBState = "BLOCKED"

====
